---- MODULE Spec2Model ----
(***************************************************************************)
(* A model of ndim's NdArray<T, N> (src/src/core.rs): one array value, the *)
(* caller's data vector it may have been built from, and the heap both     *)
(* live on.  usize arithmetic is WordBits wide; an overflowing operation   *)
(* panics in a debug build and wraps in a release build.                   *)
(***************************************************************************)
EXTENDS Integers, Sequences, FiniteSets, TLC

(* ---- program constants ---- *)
N == 2
ElemSize == 4
USIZE_ONE == 1

(* ---- bounds of the model ---- *)
WordBits == 8
MaxDim == 3
MaxLen == 6
TMax == 6
MaxNeg == 1
MaxRange == 5
MaxStep == 3
MaxWrites == 1

VARIABLES
    build,      \* "debug" | "release": how arithmetic overflow behaves
    dims,       \* the axis sizes callers draw shapes from
    alive,      \* "none" | "live" | "failed" | "dropped": the array value
    ptr,        \* "null" | "caller" | "own": where NdArray.ptr points
    len,        \* NdArray.len
    shape,      \* NdArray.shape
    strides,    \* NdArray.strides
    heap,       \* the two allocations: the caller's slice and the array's own Vec
    writes,     \* element writes done so far (bounded by MaxWrites)
    last        \* the last operation: its arguments and its outcome

vars == <<build, dims, alive, ptr, len, shape, strides, heap, writes, last>>
array == <<alive, ptr, len, shape, strides>>

(* ---- machine arithmetic ---- *)
Modulus == 2 ^ WordBits
Wrap(x) == x % Modulus

(* ---- input domains ---- *)
Axes == 1 .. N
Shapes == [Axes -> dims]
Indices == [Axes -> 0 .. MaxDim]
Vals == 0 .. TMax
WriteVals == {TMax}
RangeVals == (0 - MaxNeg) .. MaxRange
Steps == 0 .. MaxStep
Iota(n) == [i \in 1 .. n |-> (i - 1) % (TMax + 1)]
DataSeqs == { Iota(n) : n \in 0 .. MaxLen }

(* ---- pure helpers of NdArray ---- *)
RECURSIVE StrideAt(_, _)
StrideAt(shp, i) ==
    IF i = N THEN ElemSize ELSE Wrap(StrideAt(shp, i + 1) * shp[i + 1])

(* stride, multiplying by the size of the axis itself instead of the next one *)
RECURSIVE StrideSameAxisAt(_, _)
StrideSameAxisAt(shp, i) ==
    IF i = N THEN ElemSize ELSE Wrap(StrideSameAxisAt(shp, i + 1) * shp[i])

stride_same_axis(shp) == [i \in Axes |-> StrideSameAxisAt(shp, i)]

stride(shp) == [i \in Axes |-> StrideAt(shp, i)]

StrideOverflows(shp) ==
    \E i \in 1 .. N - 1 : StrideAt(shp, i + 1) * shp[i + 1] >= Modulus

RECURSIVE SizeAcc(_, _)
SizeAcc(shp, k) ==
    IF k = 0 THEN 1 ELSE Wrap(SizeAcc(shp, k - 1) * shp[k])

(* size_from_shape, leaving the last axis out of the product *)
size_from_shape_short(shp) == SizeAcc(shp, N - 1)

size_from_shape(shp) == SizeAcc(shp, N)

SizeOverflows(shp) ==
    \E k \in Axes : SizeAcc(shp, k - 1) * shp[k] >= Modulus

Abs(x) == IF x < 0 THEN 0 - x ELSE x
Max(a, b) == IF a >= b THEN a ELSE b

size_from_range(start, end, step) ==
    LET range == Abs(end - start) IN
    IF step = 0 THEN range
    ELSE IF range % 2 = 0
         THEN (IF step % 2 = 0 THEN (range \div step) + 1 ELSE range \div step)
         ELSE (IF step % 2 = 0 THEN range \div step ELSE (range \div step) + 1)

RECURSIVE IdxAcc(_, _, _)
IdxAcc(index, strd, k) ==
    IF k = 0 THEN 0
    ELSE Wrap(IdxAcc(index, strd, k - 1) + Wrap(index[k] * strd[k]))

(* get_index, without the division by the last stride *)
get_index_no_div(index, strd) == IdxAcc(index, strd, N)

get_index(index, strd) == IdxAcc(index, strd, N) \div strd[N]

IndexOverflows(index, strd) ==
    \E k \in Axes :
        \/ index[k] * strd[k] >= Modulus
        \/ IdxAcc(index, strd, k - 1) + Wrap(index[k] * strd[k]) >= Modulus

(* ---- the record of the last operation ---- *)
Done(op, status, arg, flat, val) ==
    [op |-> op, status |-> status, arg |-> arg, flat |-> flat, val |-> val]

(* An allocation: whether it exists and is not yet freed, the capacity it was
   reserved with, and its elements. *)
Alloc(cap, cells) == [live |-> cap > 0, cap |-> cap, cells |-> cells]

NoHeap == [caller |-> Alloc(0, << >>), own |-> Alloc(0, << >>)]

(* Axis sizes large enough for a product of two of them, or a stride, to
   leave the machine word. *)
BigDims == {2 ^ ((WordBits + 1) \div 2), Modulus \div ElemSize}

Start ==
    /\ build \in {"debug", "release"}
    /\ alive = "none"
    /\ ptr = "null"
    /\ len = 0
    /\ shape = [i \in Axes |-> USIZE_ONE]
    /\ strides = [i \in Axes |-> USIZE_ONE]
    /\ heap = NoHeap
    /\ writes = 0
    /\ last = Done("init", "ok", << >>, 0, 0)

(* Callers that use small shapes: no operation overflows. *)
Init == Start /\ dims = 0 .. MaxDim

(* Callers that also use shapes whose arithmetic overflows. *)
InitWide == Start /\ dims = (0 .. MaxDim) \cup BigDims

(* A constructor that panics yields no array. *)
Fails(op, status, arg) ==
    /\ alive' = "failed"
    /\ last' = Done(op, status, arg, 0, 0)
    /\ UNCHANGED <<build, dims, ptr, len, shape, strides, writes>>

new ==
    /\ alive = "none"
    /\ alive' = "live"
    /\ ptr' = "null"
    /\ len' = 0
    /\ shape' = [i \in Axes |-> USIZE_ONE]
    /\ strides' = [i \in Axes |-> USIZE_ONE]
    /\ last' = Done("new", "ok", << >>, 0, 0)
    /\ UNCHANGED <<build, dims, heap, writes>>

(* NdArray::from: the array keeps the address of the caller's slice arr. *)
from(arr, shp) ==
    /\ alive = "none"
    /\ heap' = [heap EXCEPT !.caller = Alloc(Len(arr), arr)]
    /\ IF build = "debug" /\ SizeOverflows(shp)
       THEN Fails("from", "Overflow", <<arr, shp>>)
       ELSE IF Len(arr) # size_from_shape(shp)
       THEN Fails("from", "ShapeMismatch", <<arr, shp>>)
       ELSE IF build = "debug" /\ StrideOverflows(shp)
       THEN Fails("from", "Overflow", <<arr, shp>>)
       ELSE /\ alive' = "live"
            /\ ptr' = "caller"
            /\ len' = Len(arr)
            /\ shape' = shp
            /\ strides' = stride(shp)
            /\ last' = Done("from", "ok", <<arr, shp>>, 0, 0)
            /\ UNCHANGED <<build, dims, writes>>

(* reshape, without the check of the new shape against len *)
reshape_unchecked(shp) ==
    /\ alive = "live"
    /\ last' = Done("reshape", "ok", shp, 0, 0)
    /\ shape' = shp
    /\ strides' = stride(shp)
    /\ UNCHANGED <<build, dims, alive, ptr, len, heap, writes>>

(* reshape, assigning the new shape before checking it *)
reshape_assign_first(shp) ==
    /\ alive = "live"
    /\ shape' = shp
    /\ IF size_from_shape(shp) # len
       THEN /\ last' = Done("reshape", "ShapeMismatch", shp, 0, 0)
            /\ UNCHANGED strides
       ELSE /\ last' = Done("reshape", "ok", shp, 0, 0)
            /\ strides' = stride(shp)
    /\ UNCHANGED <<build, dims, alive, ptr, len, heap, writes>>

(* reshape, forgetting to recompute the strides *)
reshape_keep_strides(shp) ==
    /\ alive = "live"
    /\ IF size_from_shape(shp) # len
       THEN /\ last' = Done("reshape", "ShapeMismatch", shp, 0, 0)
            /\ UNCHANGED shape
       ELSE /\ last' = Done("reshape", "ok", shp, 0, 0)
            /\ shape' = shp
    /\ UNCHANGED <<build, dims, alive, ptr, len, strides, heap, writes>>

(* NdArray::reshape: shape is assigned before the strides are computed. *)
reshape(shp) ==
    /\ alive = "live"
    /\ IF build = "debug" /\ SizeOverflows(shp)
       THEN /\ last' = Done("reshape", "Overflow", shp, 0, 0)
            /\ UNCHANGED <<shape, strides>>
       ELSE IF size_from_shape(shp) # len
       THEN /\ last' = Done("reshape", "ShapeMismatch", shp, 0, 0)
            /\ UNCHANGED <<shape, strides>>
       ELSE IF build = "debug" /\ StrideOverflows(shp)
       THEN /\ last' = Done("reshape", "Overflow", shp, 0, 0)
            /\ shape' = shp
            /\ UNCHANGED strides
       ELSE /\ last' = Done("reshape", "ok", shp, 0, 0)
            /\ shape' = shp
            /\ strides' = stride(shp)
    /\ UNCHANGED <<build, dims, alive, ptr, len, heap, writes>>

(* the loops of range, with the end of the range included *)
Progression_to_end(start, end, step) ==
    IF step = 0
    THEN [k \in 1 .. (end - start + 1) |-> start + (k - 1)]
    ELSE [k \in 1 .. (((end - start) \div step) + 1) |-> start + (k - 1) * step]

(* the loops of range, stopping before a last partial step *)
Progression_whole_steps(start, end, step) ==
    IF step = 0
    THEN [k \in 1 .. (end - start) |-> start + (k - 1)]
    ELSE [k \in 1 .. ((end - start) \div step) |-> start + (k - 1) * step]

(* The values the loops of NdArray::range push, in order. *)
Progression(start, end, step) ==
    IF step = 0
    THEN [k \in 1 .. (end - start) |-> start + (k - 1)]
    ELSE [k \in 1 .. ((end - start + step - 1) \div step) |-> start + (k - 1) * step]

(* T::from(i), as a plain cast that lets negative values through *)
Representable_cast(i) == i <= TMax

(* T::from(i): an unsigned element type holds 0 .. TMax. *)
Representable(i) == 0 <= i /\ i <= TMax

(* NdArray::range: a Vec reserved with size_from_range elements (it grows when
   more are pushed) is forgotten on success and unwound on a panic. *)
range(start, end, step) ==
    LET end_range == size_from_range(start, end, step)
        arr == Progression(start, end, step)
    IN
    /\ alive = "none"
    /\ IF start > end
       THEN Fails("range", "InvalidRange", <<start, end, step>>) /\ UNCHANGED heap
       ELSE IF \E k \in 1 .. Len(arr) : ~ Representable(arr[k])
       THEN Fails("range", "ConversionFailure", <<start, end, step>>) /\ UNCHANGED heap
       ELSE /\ alive' = "live"
            /\ ptr' = "own"
            /\ len' = Len(arr)
            /\ shape' = [i \in Axes |-> IF i = N THEN Len(arr) ELSE USIZE_ONE]
            /\ strides' = [i \in Axes |-> IF i = N THEN ElemSize ELSE USIZE_ONE]
            /\ heap' = [heap EXCEPT !.own = Alloc(Max(end_range, Len(arr)), arr)]
            /\ last' = Done("range", "ok", <<start, end, step>>, 0, 0)
            /\ UNCHANGED <<build, dims, writes>>

arange(end) == range(0, end, 0)

arange_with_step(end, step) == range(0, end, step)

ranges(start, end) == range(start, end, 0)

ranges_with_step(start, end, step) == range(start, end, step)

(* NdArray::values: vec![val; size] is forgotten once the strides are computed. *)
(* values, filling the buffer with T::default() whatever value is asked for *)
values_default(val, shp) ==
    LET size == size_from_shape(shp) IN
    /\ alive = "none"
    /\ IF build = "debug" /\ (SizeOverflows(shp) \/ StrideOverflows(shp))
       THEN Fails("values", "Overflow", shp) /\ UNCHANGED heap
       ELSE /\ alive' = "live"
            /\ ptr' = "own"
            /\ len' = size
            /\ shape' = shp
            /\ strides' = stride(shp)
            /\ heap' = [heap EXCEPT !.own = Alloc(size, [i \in 1 .. size |-> 0])]
            /\ last' = Done("values", "ok", shp, 0, val)
            /\ UNCHANGED <<build, dims, writes>>

values(val, shp) ==
    LET size == size_from_shape(shp) IN
    /\ alive = "none"
    /\ IF build = "debug" /\ (SizeOverflows(shp) \/ StrideOverflows(shp))
       THEN Fails("values", "Overflow", shp) /\ UNCHANGED heap
       ELSE /\ alive' = "live"
            /\ ptr' = "own"
            /\ len' = size
            /\ shape' = shp
            /\ strides' = stride(shp)
            /\ heap' = [heap EXCEPT !.own = Alloc(size, [i \in 1 .. size |-> val])]
            /\ last' = Done("values", "ok", shp, 0, val)
            /\ UNCHANGED <<build, dims, writes>>

zeros(shp) == values(0, shp)

ones(shp) == values(1, shp)

(* What a dereference of ptr + flat yields: the cell, or anything once the
   allocation is gone. *)
Deref(flat) ==
    IF ptr # "null" /\ heap[ptr].live /\ flat < Len(heap[ptr].cells)
    THEN {heap[ptr].cells[flat + 1]}
    ELSE Vals

(* Index::index *)
index(idx) ==
    LET flat == get_index(idx, strides) IN
    /\ alive = "live"
    /\ IF build = "debug" /\ IndexOverflows(idx, strides)
       THEN last' = Done("index", "Overflow", idx, 0, 0)
       ELSE IF flat >= len
       THEN last' = Done("index", "IndexOutOfBounds", idx, flat, 0)
       ELSE \E v \in Deref(flat) : last' = Done("index", "ok", idx, flat, v)
    /\ UNCHANGED <<build, dims, alive, ptr, len, shape, strides, heap, writes>>

(* A store through ptr + flat: it lands in the cell; into a released
   allocation it may or may not stick. *)
Store(flat, v) ==
    IF ptr = "null" \/ flat >= Len(heap[ptr].cells)
    THEN {heap}
    ELSE {[heap EXCEPT ![ptr].cells[flat + 1] = v]}
         \cup (IF heap[ptr].live THEN {} ELSE {heap})

(* IndexMut::index_mut, followed by the assignment through the reference. *)
index_mut(idx, v) ==
    LET flat == get_index(idx, strides) IN
    /\ alive = "live"
    /\ writes < MaxWrites
    /\ writes' = writes + 1
    /\ IF build = "debug" /\ IndexOverflows(idx, strides)
       THEN /\ last' = Done("index_mut", "Overflow", idx, 0, v)
            /\ UNCHANGED heap
       ELSE IF flat >= len
       THEN /\ last' = Done("index_mut", "IndexOutOfBounds", idx, flat, v)
            /\ UNCHANGED heap
       ELSE /\ last' = Done("index_mut", "ok", idx, flat, v)
            /\ heap' \in Store(flat, v)
    /\ UNCHANGED <<build, dims, alive, ptr, len, shape, strides>>

(* Drop::drop: drop_in_place of a slice of Copy elements; nothing is freed. *)
drop ==
    /\ alive = "live"
    /\ alive' = "dropped"
    /\ last' = Done("drop", "ok", << >>, 0, 0)
    /\ UNCHANGED <<build, dims, ptr, len, shape, strides, heap, writes>>

(* The caller of from still owns its data: it may change it ... *)
caller_write(i, v) ==
    /\ alive = "live"
    /\ heap.caller.live
    /\ i \in 1 .. Len(heap.caller.cells)
    /\ writes < MaxWrites
    /\ writes' = writes + 1
    /\ heap' = [heap EXCEPT !.caller.cells[i] = v]
    /\ last' = Done("caller_write", "ok", <<i>>, i - 1, v)
    /\ UNCHANGED <<build, dims, alive, ptr, len, shape, strides>>

(* ... and release it while the array is still in use. *)
caller_release ==
    /\ alive = "live"
    /\ heap.caller.live
    /\ heap' = [heap EXCEPT !.caller.live = FALSE]
    /\ last' = Done("caller_release", "ok", << >>, 0, 0)
    /\ UNCHANGED <<build, dims, alive, ptr, len, shape, strides, writes>>

FillShapes == { s \in Shapes : size_from_shape(s) <= MaxLen }

Next ==
    \/ new
    \/ \E d \in DataSeqs, s \in Shapes : from(d, s)
    \/ \E s \in FillShapes : zeros(s)
    \/ \E s \in FillShapes : ones(s)
    \/ \E e \in 0 .. MaxRange : arange(e)
    \/ \E e \in 0 .. MaxRange, st \in Steps : arange_with_step(e, st)
    \/ \E s \in RangeVals, e \in RangeVals : ranges(s, e)
    \/ \E s \in RangeVals, e \in RangeVals, st \in Steps : ranges_with_step(s, e, st)
    \/ \E s \in Shapes : reshape(s)
    \/ \E i \in Indices : index(i)
    \/ \E i \in Indices, v \in WriteVals : index_mut(i, v)
    \/ drop
    \/ \E i \in 1 .. MaxLen, v \in WriteVals : caller_write(i, v)
    \/ caller_release

Spec == Init /\ [][Next]_vars

SpecWide == InitWide /\ [][Next]_vars

(* ======================================================================= *)
(* Properties                                                              *)
(* ======================================================================= *)

(* The exact (unbounded) product of the axis sizes k+1 .. N of a shape. *)
RECURSIVE ProductFrom(_, _)
ProductFrom(shp, k) ==
    IF k >= N THEN 1 ELSE shp[k + 1] * ProductFrom(shp, k + 1)

Product(shp) == ProductFrom(shp, 0)

(* Row-major strides: the element size times the sizes of all inner axes. *)
RowMajorStrides(shp) == [i \in Axes |-> ElemSize * ProductFrom(shp, i)]

(* The row-major position of a multi-index in a shape. *)
RECURSIVE PosFrom(_, _, _)
PosFrom(idx, shp, k) ==
    IF k > N THEN 0 ELSE idx[k] * ProductFrom(shp, k) + PosFrom(idx, shp, k + 1)

RowMajorPos(idx, shp) == PosFrom(idx, shp, 1)

(* The p-th multi-index of a shape in row-major order, p counted from 0. *)
Unrank(p, shp) == [i \in Axes |-> (p \div ProductFrom(shp, i)) % shp[i]]

InRange(idx, shp) == \A i \in Axes : idx[i] < shp[i]

(* The flat index of the specification: the exact sum, divided by the last stride. *)
RECURSIVE RawFrom(_, _, _)
RawFrom(idx, strd, k) ==
    IF k > N THEN 0 ELSE idx[k] * strd[k] + RawFrom(idx, strd, k + 1)

FlatIndex(idx, strd) == RawFrom(idx, strd, 1) \div strd[N]

Cells == IF ptr = "null" THEN << >> ELSE heap[ptr].cells

C2_StrideLaw ==
    (alive = "live" /\ ptr # "null") =>
        /\ strides[N] = ElemSize
        /\ \A i \in 1 .. N - 1 : strides[i] = strides[i + 1] * shape[i + 1]

(* C3: on an array built by from, a read at a multi-index that is in range on
   every axis resolves to the row-major position of the index and returns the
   element of the data at that position. *)
C3_RowMajorRead ==
    (/\ alive = "live"
     /\ ptr = "caller"
     /\ heap.caller.live
     /\ writes = 0
     /\ last.op = "index"
     /\ InRange(last.arg, shape)) =>
        /\ last.status = "ok"
        /\ last.flat = RowMajorPos(last.arg, shape)
        /\ last.val = Iota(len)[RowMajorPos(last.arg, shape) + 1]

C3_Witness ==
    /\ alive = "live"
    /\ ptr = "caller"
    /\ heap.caller.live
    /\ writes = 0
    /\ shape = <<2, 3>>
    /\ last.op = "index"
    /\ last.arg = <<1, 2>>
    /\ last.val = 5

(* C4: an indexed read or write is accepted exactly when the resolved flat
   index is less than len; otherwise it fails with IndexOutOfBounds and no
   element changes; no axis is checked on its own. *)
C4_Accepted ==
    (alive = "live" /\ last.op \in {"index", "index_mut"}) =>
        LET flat == FlatIndex(last.arg, strides) IN
        /\ last.status = "ok" <=> flat < len
        /\ flat >= len => last.status = "IndexOutOfBounds"
        /\ last.status = "ok" => last.flat = flat

C4_FlatBoundsOnly ==
    /\ [] C4_Accepted
    /\ [][(last'.op \in {"index", "index_mut"} /\ last'.status # "ok")
            => UNCHANGED <<array, heap>>]_vars

C4_Witness ==
    /\ alive = "live"
    /\ last.op = "index_mut"
    /\ last.status = "ok"
    /\ \E i \in Axes : last.arg[i] >= shape[i]
    /\ Cells[last.flat + 1] = last.val

(* C5: the buffer of an array built by from is not the caller's data: a write
   through the array never changes the caller's data, and a change of the
   caller's data never changes the array's elements. *)
C5_NeverAliased ==
    [][/\ (last'.op = "index_mut" => heap'.caller.cells = heap.caller.cells)
       /\ (last'.op = "caller_write" => Cells' = Cells)]_vars

(* C6: the allocation an array acquired at construction is freed when the
   array is destroyed, and destroying an empty array releases nothing. *)
C6_FreedOnDrop ==
    alive = "dropped" =>
        /\ ptr = "own" => ~ heap.own.live
        /\ ptr = "null" => heap = NoHeap

(* C7: invariant I4: the buffer pointer is null with len 0, or it points to
   exactly len live elements. *)
C7_BufferLive ==
    alive = "live" =>
        \/ ptr = "null" /\ len = 0
        \/ /\ ptr # "null"
           /\ Len(heap[ptr].cells) = len
           /\ len > 0 => heap[ptr].live

(* C8: a reshape to a shape whose product differs from len fails with
   ShapeMismatch and leaves shape, strides, len and the buffer as they were. *)
C8_FailedReshapeAtomic ==
    [][(last'.op = "reshape" /\ Product(last'.arg) # len) =>
         /\ last'.status = "ShapeMismatch"
         /\ UNCHANGED <<array, heap>>]_vars

C8_Witness ==
    /\ alive = "live"
    /\ len = 6
    /\ shape = <<2, 3>>
    /\ last.op = "reshape"
    /\ last.status = "ShapeMismatch"
    /\ Product(last.arg) = 4

(* The flat index each in-range multi-index of the shape resolves to, the
   multi-indices taken in row-major order. *)
FlatOrder ==
    [p \in 1 .. Product(shape) |-> get_index(Unrank(p - 1, shape), strides)]

(* C9: a successful reshape sets shape to the new shape and strides to its
   row-major strides, leaves len and the buffer alone, and the in-range
   multi-indices of the new shape, in row-major order, resolve to the flat
   positions 0, 1, .., len - 1 in that order. *)
C9_ReshapeKeepsFlatOrder ==
    [][(last'.op = "reshape" /\ last'.status = "ok") =>
         /\ Product(last'.arg) = len
         /\ shape' = last'.arg
         /\ strides' = RowMajorStrides(last'.arg)
         /\ UNCHANGED <<alive, ptr, len, heap>>
         /\ FlatOrder' = [p \in 1 .. len |-> p - 1]]_vars

C9_Witness ==
    /\ alive = "live"
    /\ last.op = "reshape"
    /\ last.status = "ok"
    /\ shape = <<3, 2>>
    /\ strides = <<8, 4>>
    /\ Cells = <<0, 1, 2, 3, 4, 5>>

(* C10: from fails with ShapeMismatch, yielding no array, exactly when the
   length of the data differs from the product of the shape; otherwise the
   array has the data's length, the given shape and its row-major strides. *)
C10_FromChecksShape ==
    last.op = "from" =>
        LET arr == last.arg[1]
            shp == last.arg[2]
        IN  IF Len(arr) # Product(shp)
            THEN last.status = "ShapeMismatch" /\ alive = "failed"
            ELSE /\ last.status = "ok"
                 /\ alive = "live"
                 /\ len = Len(arr)
                 /\ shape = shp
                 /\ strides = RowMajorStrides(shp)
                 /\ Cells = arr

C10_Witness ==
    /\ last.op = "from"
    /\ last.status = "ShapeMismatch"
    /\ Len(last.arg[1]) = 3
    /\ last.arg[2] = <<2, 2>>

C10_WitnessOk ==
    /\ last.op = "from"
    /\ last.status = "ok"
    /\ shape = <<2, 3>>
    /\ strides = <<12, 4>>

(* C11: write/read round trip: a read at idx directly after an accepted write
   of v at idx, on any array, is accepted and returns v. *)
C11_RoundTrip ==
    [][(/\ last.op = "index_mut"
        /\ last.status = "ok"
        /\ last'.op = "index"
        /\ last'.arg = last.arg) =>
           /\ last'.status = "ok"
           /\ last'.val = last.val]_vars

(* The progression cur, cur + s, cur + 2s, .. of the values below end. *)
RECURSIVE ValuesBelow(_, _, _)
ValuesBelow(cur, end, s) ==
    IF cur >= end THEN << >> ELSE <<cur>> \o ValuesBelow(cur + s, end, s)

EffectiveStep(step) == IF step = 0 THEN 1 ELSE step

(* C12: an array built by the range family holds exactly the progression
   start, start + s, .. below end (s = step, or 1 when step is 0), and its
   shape is 1 on every axis but the last, which is the number of values. *)
C12_RangeContents ==
    (last.op = "range" /\ last.status = "ok") =>
        LET prog == ValuesBelow(last.arg[1], last.arg[2], EffectiveStep(last.arg[3]))
        IN  /\ alive = "live"
            /\ Cells = prog
            /\ len = Len(prog)
            /\ shape = [i \in Axes |-> IF i = N THEN Len(prog) ELSE 1]

C12_Witness ==
    /\ last.op = "range"
    /\ last.status = "ok"
    /\ last.arg = <<1, 5, 0>>
    /\ Cells = <<1, 2, 3, 4>>
    /\ shape = <<1, 4>>

C14_RangeFailures ==
    last.op = "range" =>
        LET start == last.arg[1]
            end == last.arg[2]
            prog == ValuesBelow(start, end, EffectiveStep(last.arg[3]))
        IN  IF start > end
            THEN last.status = "InvalidRange" /\ alive = "failed" /\ heap = NoHeap
            ELSE IF \E k \in 1 .. Len(prog) : prog[k] \notin Vals
            THEN last.status = "ConversionFailure" /\ alive = "failed" /\ heap = NoHeap
            ELSE last.status = "ok" /\ alive = "live" /\ ptr = "own"

C14_Witness ==
    /\ last.op = "range"
    /\ last.status = "ConversionFailure"
    /\ last.arg[1] < 0
    /\ last.arg[2] > 0
    /\ alive = "failed"

(* The array has shape shp and product(shp) elements, and a read at every
   in-range multi-index is in bounds and finds v. *)
FilledWith(shp, v) ==
    /\ alive = "live"
    /\ shape = shp
    /\ len = Product(shp)
    /\ \A idx \in Indices :
           InRange(idx, shp) =>
               /\ get_index(idx, strides) < len
               /\ heap[ptr].live
               /\ Cells[get_index(idx, strides) + 1] = v

(* C15: for every shape, zeros(shape) and ones(shape) return an array of that
   shape with product(shape) elements, and every in-range read finds the
   zero of the type (zeros) or the one of the type (ones).  A constructor
   step is a step from the state with no array. *)
C15_FillConstructors ==
    [][alive = "none" =>
           \A shp \in FillShapes :
               /\ zeros(shp) => FilledWith(shp, 0)'
               /\ ones(shp) => FilledWith(shp, 1)']_vars

C15_Witness ==
    /\ last.op = "values"
    /\ last.status = "ok"
    /\ last.val = 1
    /\ shape = <<2, 3>>
    /\ Cells = <<1, 1, 1, 1, 1, 1>>

(* C16: for every start <= end and every step, the value size_from_range
   returns equals the number of elements the range constructor generates,
   the len of the resulting array. *)
C16_SizeFromRangeExact ==
    (last.op = "range" /\ last.status = "ok") =>
        size_from_range(last.arg[1], last.arg[2], last.arg[3]) = len

(* C17: reshaping an array to its own current shape succeeds and leaves
   shape, strides, len and contents unchanged, for every array from any
   constructor and after any reshapes. *)
C17_ReshapeToOwnShape ==
    [][(alive = "live" /\ reshape(shape)) =>
           /\ last'.status = "ok"
           /\ shape' = shape
           /\ strides' = strides
           /\ len' = len
           /\ heap' = heap]_vars

(* C18: from and reshape accept a shape only when its exact product, not its
   product modulo 2^w, equals the element count. *)
C18_ExactProductCheck ==
    /\ (last.op = "from" /\ last.status = "ok") => Product(last.arg[2]) = len
    /\ (last.op = "reshape" /\ last.status = "ok") => Product(last.arg) = len

====
